---- MODULE Spec2Model ----
(***************************************************************************)
(* A model of the flashcard application's JSON API (src/app.py): the user, *)
(* topic and card tables and the request handlers that read and write      *)
(* them.  Every handler is one atomic action (one request, one             *)
(* transaction); a handler that returns before db.session.commit() leaves  *)
(* the tables as they were, because the request's session is discarded.    *)
(***************************************************************************)
EXTENDS Integers, Sequences, FiniteSets, TLC

VARIABLES
    users,   \* ids of the rows of the user table
    topics,  \* topic table: id -> [name, user_id, parent_id, order]
    cards,   \* card table:  id -> [category, front, back, user_id, topic_id]
    last     \* the last request served and the response it got

vars == <<users, topics, cards, last>>

(* ------------------------------ bounds --------------------------------- *)

MaxTopicId == 3
MaxCardId == 1
MaxItems == 1
MaxDocItems == 2

\* The accounts that register: the caller of a request and one other user.
UserIds == {1, 2}

(* --------------------------- program constants ------------------------- *)

\* A nullable integer column holding NULL / Python's None.
NULL == -1
\* The default topic's name.
DefaultName == "My Flashcards"
\* Topic.order given by register, create_topic and import_cards.
RegisterOrder == 0
CreateOrder == 999
ImportOrder == 999
\* The status of a request whose handler never returns.
NoResponse == 0

(* ------------------------------ JSON values ---------------------------- *)

\* A JSON value in an id position of a request body: null, a number, or a
\* string holding the numeral of v.
JNull == [t |-> "null", v |-> 0]
JInt(n) == [t |-> "int", v |-> n]
JStr(n) == [t |-> "str", v |-> n]

\* Python truthiness: None and 0 are false, a non-empty string is true.
Truthy(j) == (j.t = "int" /\ j.v # 0) \/ j.t = "str"

\* Python's ==/!= between a request value and an integer id: a string never
\* equals an integer.
PyEq(j, n) == j.t = "int" /\ j.v = n

\* The value an INTEGER column of the sqlite store holds after the value is
\* written to it: column affinity turns a numeral string into the integer.
Stored(j) == IF j.t = "null" THEN NULL ELSE j.v

\* Table.query.get(j): the id of the row with primary key j, or NULL.
Get(tbl, j) == IF j.t # "null" /\ j.v \in DOMAIN tbl THEN j.v ELSE NULL

\* dict access on a request body (a function from field names to values).
Has(data, k) == k \in DOMAIN data
GetOr(data, k, d) == IF k \in DOMAIN data THEN data[k] ELSE d

\* Request bodies: the fields of f and g together.
Merge(f, g) ==
    [k \in DOMAIN f \cup DOMAIN g |-> IF k \in DOMAIN f THEN f[k] ELSE g[k]]

\* A field that is absent or carries one of vals.
Opt(k, vals) == {<<>>} \cup {[x \in {k} |-> v] : v \in vals}

(* ------------------------------ the store ------------------------------ *)

Max(S) == CHOOSE x \in S : \A y \in S : y <= x
Min(S) == CHOOSE x \in S : \A y \in S : x <= y

\* The id an insert gives a new row: an INTEGER PRIMARY KEY column takes the
\* largest id in the table plus one (ids of deleted rows are used again).
NextId(ids) == IF ids = {} THEN 1 ELSE Max(ids) + 1

\* The ids of a set, ascending (the order a table scan returns rows).
RECURSIVE Ascending(_)
Ascending(S) == IF S = {} THEN <<>> ELSE <<Min(S)>> \o Ascending(S \ {Min(S)})

Insert(tbl, row) ==
    [i \in DOMAIN tbl \cup {NextId(DOMAIN tbl)} |->
        IF i \in DOMAIN tbl THEN tbl[i] ELSE row]

Remove(tbl, ids) == [i \in DOMAIN tbl \ ids |-> tbl[i]]

\* Topic.query.filter_by(user_id=u, name="My Flashcards").first(): id or NULL.
FirstTopicNamed(tps, u, name) ==
    LET ids == {i \in DOMAIN tps : tps[i].user_id = u /\ tps[i].name = name}
    IN  IF ids = {} THEN NULL ELSE Min(ids)

DefaultTopic(tps, u) == FirstTopicNamed(tps, u, DefaultName)

\* The request `op` and its response: the status, the ids of the rows it
\* lists (get_cards) or deleted (delete_topic), and the document downloaded
\* (export_cards) or uploaded (import_cards).
Respond(op, status, ids, doc) ==
    last' = [op |-> op, status |-> status, ids |-> ids, doc |-> doc]

Init ==
    /\ users = {}
    /\ topics = <<>>
    /\ cards = <<>>
    /\ last = [op |-> "none", status |-> 200, ids |-> {}, doc |-> <<>>]

(* ------------------------------- handlers ------------------------------ *)

\* POST /register: a new user row and its default topic.
register(u) ==
    /\ u = NextId(users)
    /\ u \in UserIds
    /\ users' = users \cup {u}
    /\ topics' = Insert(topics, [name |-> DefaultName, user_id |-> u,
                                 parent_id |-> NULL, order |-> RegisterOrder])
    /\ UNCHANGED cards
    /\ Respond("register", 302, {}, <<>>)

\* POST /api/topics
create_topic(u, data) ==
    LET parent_id == GetOr(data, "parent_id", JNull)
        parent == Get(topics, parent_id)
    IN  /\ u \in users
        /\ IF Truthy(parent_id) /\ (parent = NULL \/ topics[parent].user_id # u)
           THEN /\ UNCHANGED <<users, topics, cards>>
                /\ Respond("create_topic", 400, {}, <<>>)
           ELSE IF ~Has(data, "name")
           THEN \* name is None: the insert fails (nullable=False)
                /\ UNCHANGED <<users, topics, cards>>
                /\ Respond("create_topic", 500, {}, <<>>)
           ELSE /\ topics' = Insert(topics, [name |-> data["name"], user_id |-> u,
                                        parent_id |-> Stored(parent_id),
                                        order |-> CreateOrder])
                /\ UNCHANGED <<users, cards>>
                /\ Respond("create_topic", 200, {}, <<>>)

\* The row update_topic writes when it reaches its commit.
UpdatedTopic(t, data) ==
    [t EXCEPT !.name = GetOr(data, "name", @),
              !.order = GetOr(data, "order", @),
              !.parent_id = IF Has(data, "parent_id")
                            THEN Stored(data["parent_id"]) ELSE @]

\* A handler that commits the name and order it has assigned before it
\* rejects the parent.
RejectedUpdate_Committed(tps, id, data) ==
    [tps EXCEPT ![id] = [@ EXCEPT !.name = GetOr(data, "name", @),
                                  !.order = GetOr(data, "order", @)]]

\* The rows persisted when update_topic returns 400: the name and order
\* assignments made before the check were never committed.
RejectedUpdate(tps, id, data) == tps

\* PUT /api/topics/<id>
update_topic(u, id, data) ==
    /\ u \in users
    /\ IF id \notin DOMAIN topics
       THEN /\ UNCHANGED <<users, topics, cards>>
            /\ Respond("update_topic", 404, {}, <<>>)
       ELSE IF topics[id].user_id # u
       THEN /\ UNCHANGED <<users, topics, cards>>
            /\ Respond("update_topic", 403, {}, <<>>)
       ELSE IF Has(data, "parent_id") /\ PyEq(data["parent_id"], id)
       THEN /\ topics' = RejectedUpdate(topics, id, data)
            /\ UNCHANGED <<users, cards>>
            /\ Respond("update_topic", 400, {}, <<>>)
       ELSE /\ topics' = [topics EXCEPT ![id] = UpdatedTopic(@, data)]
            /\ UNCHANGED <<users, cards>>
            /\ Respond("update_topic", 200, {}, <<>>)

\* A delete that removes the topic and its children and never descends to
\* the children's own children.
delete_recursive_Shallow(tps, t, depth) ==
    [ok |-> TRUE, ids |-> {t} \cup {i \in DOMAIN tps : tps[i].parent_id = t}]

\* delete_recursive(t): the topics it visits, children before the topic
\* itself; ok is FALSE when the recursion passes `depth` nested calls, which
\* happens only on a parent cycle, where Python raises RecursionError.
RECURSIVE delete_recursive(_, _, _)
delete_recursive(tps, t, depth) ==
    IF depth = 0 THEN [ok |-> FALSE, ids |-> {}]
    ELSE LET children == {i \in DOMAIN tps : tps[i].parent_id = t}
             sub == {delete_recursive(tps, c, depth - 1) : c \in children}
         IN  [ok |-> \A s \in sub : s.ok,
              ids |-> {t} \cup UNION {s.ids : s \in sub}]

\* The cards delete_recursive deletes: those filed under a visited topic.
CardsOfTopics(cds, ids) == {c \in DOMAIN cds : cds[c].topic_id \in ids}

\* DELETE /api/topics/<id>
delete_topic(u, id) ==
    /\ u \in users
    /\ IF id \notin DOMAIN topics
       THEN /\ UNCHANGED <<users, topics, cards>>
            /\ Respond("delete_topic", 404, {}, <<>>)
       ELSE IF topics[id].user_id # u
       THEN /\ UNCHANGED <<users, topics, cards>>
            /\ Respond("delete_topic", 403, {}, <<>>)
       ELSE LET r == delete_recursive(topics, id, Cardinality(DOMAIN topics) + 1)
            IN  IF ~r.ok
                THEN /\ UNCHANGED <<users, topics, cards>>
                     /\ Respond("delete_topic", 500, {}, <<>>)
                ELSE /\ topics' = Remove(topics, r.ids)
                     /\ cards' = Remove(cards, CardsOfTopics(cards, r.ids))
                     /\ UNCHANGED users
                     /\ Respond("delete_topic", 200, r.ids, <<>>)

\* children_map[p] of get_topic_scope: the caller's topics with parent p.
ChildrenMap(tps, u, p) ==
    Ascending({i \in DOMAIN tps : tps[i].user_id = u /\ tps[i].parent_id = p})

\* The while loop of get_topic_scope.  done is FALSE when the stack is still
\* not empty after `fuel` pops; with fuel above the number of topics a topic
\* has then been popped twice, it lies on a parent cycle, and the loop of the
\* code never ends.
RECURSIVE ScopeLoop(_, _, _, _, _)
ScopeLoop(tps, u, stack, scope, fuel) ==
    IF stack = <<>> THEN [done |-> TRUE, scope |-> scope]
    ELSE IF fuel = 0 THEN [done |-> FALSE, scope |-> scope]
    ELSE LET curr == stack[Len(stack)]
             children == ChildrenMap(tps, u, curr)
         IN  ScopeLoop(tps, u, SubSeq(stack, 1, Len(stack) - 1) \o children,
                       scope \o children, fuel - 1)

get_topic_scope(tps, u, root_id) ==
    ScopeLoop(tps, u, <<root_id>>, <<root_id>>, Cardinality(DOMAIN tps) + 1)

Range(s) == {s[i] : i \in DOMAIN s}

\* GET /api/cards?topic_id=arg (arg = NULL: no topic_id given)
get_cards(u, arg) ==
    LET own == {c \in DOMAIN cards : cards[c].user_id = u}
        default_topic == DefaultTopic(topics, u)
        root == IF arg # NULL THEN arg ELSE default_topic
        r == get_topic_scope(topics, u, root)
    IN  /\ u \in users
        /\ UNCHANGED <<users, topics, cards>>
        /\ IF root = NULL
           THEN Respond("get_cards", 200,
                        {c \in own : cards[c].topic_id = NULL}, <<>>)
           ELSE IF ~r.done
           THEN Respond("get_cards", NoResponse, {}, <<>>)
           ELSE Respond("get_cards", 200,
                        {c \in own : \/ cards[c].topic_id \in Range(r.scope)
                                     \/ arg = NULL /\ cards[c].topic_id = NULL},
                        <<>>)

\* POST /api/cards
add_card(u, data) ==
    LET given == GetOr(data, "topic_id", JNull)
        topic == Get(topics, given)
        topic_id == IF Truthy(given) THEN Stored(given)
                    ELSE DefaultTopic(topics, u)
    IN  /\ u \in users
        /\ IF Truthy(given) /\ (topic = NULL \/ topics[topic].user_id # u)
           THEN /\ UNCHANGED <<users, topics, cards>>
                /\ Respond("add_card", 403, {}, <<>>)
           ELSE IF ~Has(data, "front") \/ ~Has(data, "back")
           THEN \* front or back is None: the insert fails (nullable=False)
                /\ UNCHANGED <<users, topics, cards>>
                /\ Respond("add_card", 500, {}, <<>>)
           ELSE /\ cards' = Insert(cards,
                       [category |-> GetOr(data, "category", "General"),
                        front |-> data["front"], back |-> data["back"],
                        user_id |-> u, topic_id |-> topic_id])
                /\ UNCHANGED <<users, topics>>
                /\ Respond("add_card", 201, {}, <<>>)

\* DELETE /api/cards/<id>
delete_card(u, id) ==
    /\ u \in users
    /\ IF id \notin DOMAIN cards
       THEN /\ UNCHANGED <<users, topics, cards>>
            /\ Respond("delete_card", 404, {}, <<>>)
       ELSE IF cards[id].user_id # u
       THEN /\ UNCHANGED <<users, topics, cards>>
            /\ Respond("delete_card", 403, {}, <<>>)
       ELSE /\ cards' = Remove(cards, {id})
            /\ UNCHANGED <<users, topics>>
            /\ Respond("delete_card", 200, {}, <<>>)

\* PUT /api/cards/<id>
update_card(u, id, data) ==
    LET given == GetOr(data, "topic_id", JNull)
        topic == Get(topics, given)
        valid == topic # NULL /\ topics[topic].user_id = u
        topic_id == IF ~Has(data, "topic_id") THEN cards[id].topic_id
                    ELSE IF given.t = "null" THEN DefaultTopic(topics, u)
                    ELSE Stored(given)
    IN  /\ u \in users
        /\ IF id \notin DOMAIN cards
           THEN /\ UNCHANGED <<users, topics, cards>>
                /\ Respond("update_card", 404, {}, <<>>)
           ELSE IF cards[id].user_id # u
           THEN /\ UNCHANGED <<users, topics, cards>>
                /\ Respond("update_card", 403, {}, <<>>)
           ELSE IF Has(data, "topic_id") /\ given.t # "null" /\ ~valid
           THEN /\ UNCHANGED <<users, topics, cards>>
                /\ Respond("update_card", 400, {}, <<>>)
           ELSE /\ cards' = [cards EXCEPT ![id] =
                       [@ EXCEPT !.category = GetOr(data, "category", @),
                                 !.front = GetOr(data, "front", @),
                                 !.back = GetOr(data, "back", @),
                                 !.topic_id = topic_id]]
                /\ UNCHANGED <<users, topics>>
                /\ Respond("update_card", 200, {}, <<>>)

\* One pass of reorder_topics' loop over the request's items, in order.
RECURSIVE ReorderLoop(_, _, _, _)
ReorderLoop(tps, u, data, i) ==
    IF i > Len(data) THEN tps
    ELSE LET item == data[i]
             topic == Get(tps, item["id"])
             step ==
                 IF topic # NULL /\ tps[topic].user_id = u
                 THEN [tps EXCEPT ![topic] =
                         [@ EXCEPT !.order = item["order"],
                                   !.parent_id =
                                       IF /\ Has(item, "parent_id")
                                          /\ ~PyEq(item["parent_id"], topic)
                                       THEN Stored(item["parent_id"]) ELSE @]]
                 ELSE tps
         IN  ReorderLoop(step, u, data, i + 1)

\* PUT /api/topics/reorder
reorder_topics(u, data) ==
    /\ u \in users
    /\ topics' = ReorderLoop(topics, u, data, 1)
    /\ UNCHANGED <<users, cards>>
    /\ Respond("reorder_topics", 200, {}, <<>>)

\* A loop that looks for front and back before prompt and completion.
TextPair_FrontFirst(item) ==
    IF Has(item, "front") /\ Has(item, "back")
    THEN <<item["front"], item["back"]>>
    ELSE IF Has(item, "prompt") /\ Has(item, "completion")
    THEN <<item["prompt"], item["completion"]>>
    ELSE <<"", "">>

\* The text pair import_cards takes from an item: <<front, back>>, each ""
\* when the item gives none.
TextPair(item) ==
    IF Has(item, "prompt") /\ Has(item, "completion")
    THEN <<item["prompt"], item["completion"]>>
    ELSE IF Has(item, "front") /\ Has(item, "back")
    THEN <<item["front"], item["back"]>>
    ELSE <<"", "">>

\* Whether import_cards makes a card of the item.
Importable(item) == TextPair(item)[1] # "" /\ TextPair(item)[2] # ""

\* The category import_cards gives the card of an item.
ImportCategory(item) == GetOr(item, "category", "Imported")

\* The loop of import_cards over the document's items: the tables and the
\* count after item i and the items that follow it.
RECURSIVE ImportLoop(_, _, _, _, _, _, _)
ImportLoop(u, doc, forced, i, tps, cds, count) ==
    IF i > Len(doc) THEN [topics |-> tps, cards |-> cds, count |-> count]
    ELSE LET item == doc[i]
             named == forced = NULL /\ Has(item, "topic") /\ item["topic"] # ""
             found == IF named THEN FirstTopicNamed(tps, u, item["topic"])
                      ELSE NULL
             tps1 == IF named /\ found = NULL
                     THEN Insert(tps, [name |-> item["topic"], user_id |-> u,
                                       parent_id |-> NULL, order |-> ImportOrder])
                     ELSE tps
             card_topic_id ==
                 IF forced # NULL THEN forced
                 ELSE IF named
                 THEN (IF found = NULL THEN NextId(DOMAIN tps) ELSE found)
                 ELSE DefaultTopic(tps, u)
             cds1 == Insert(cds,
                        [category |-> ImportCategory(item),
                         front |-> TextPair(item)[1], back |-> TextPair(item)[2],
                         user_id |-> u, topic_id |-> card_topic_id])
         IN  IF Importable(item)
             THEN ImportLoop(u, doc, forced, i + 1, tps1, cds1, count + 1)
             ELSE ImportLoop(u, doc, forced, i + 1, tps, cds, count)

\* POST /api/cards/import with a JSON list `doc` and the form field topic_id
\* (forced = NULL: no field, or one that is empty or no numeral).
import_cards(u, doc, forced) ==
    LET r == ImportLoop(u, doc, forced, 1, topics, cards, 0)
    IN  /\ u \in users
        /\ topics' = r.topics
        /\ cards' = r.cards
        /\ UNCHANGED users
        /\ Respond("import_cards", 201, {}, doc)

\* The item export_cards writes for a card: the topic's name is given when
\* the card's topic_id is the id of a topic row.
ExportItem(tps, c) ==
    IF c.topic_id \in DOMAIN tps
    THEN [category |-> c.category, front |-> c.front, back |-> c.back,
          topic |-> tps[c.topic_id].name]
    ELSE [category |-> c.category, front |-> c.front, back |-> c.back]

\* The document of export_cards: one item per card of the caller.
ExportDoc(tps, cds, u) ==
    LET ids == Ascending({c \in DOMAIN cds : cds[c].user_id = u})
    IN  [i \in 1..Len(ids) |-> ExportItem(tps, cds[ids[i]])]

\* GET /account/export
export_cards(u) ==
    /\ u \in users
    /\ UNCHANGED <<users, topics, cards>>
    /\ Respond("export_cards", 200, {}, ExportDoc(topics, cards, u))

(* ------------------------------ requests ------------------------------ *)

TopicIds == 1..MaxTopicId
CardIds == 1..MaxCardId

\* The tables hold ids up to nt and nc after the request.
Capped(nt, nc) == DOMAIN topics' \subseteq 1..nt /\ DOMAIN cards' \subseteq 1..nc

\* Topic ids as a request body gives them.
IdVals == {JInt(n) : n \in TopicIds}

\* The text of the one card the tree requests file.
PlainCard == [front |-> "Q", back |-> "A"]

TreeCreateBodies == {Merge([name |-> "Spanish"], p) : p \in Opt("parent_id", IdVals)}
TreeUpdateBodies == {[parent_id |-> p] : p \in {JNull} \cup IdVals}
TreeAddBodies == {Merge(PlainCard, t) : t \in Opt("topic_id", IdVals)}

\* The topic tree and the cards filed in it: parents and topic ids of every
\* kind, one name per way of creating a topic, one card text.
Next ==
    \/ \E u \in UserIds : register(u) /\ Capped(MaxTopicId, MaxCardId)
    \/ \E u \in users, id \in TopicIds, data \in TreeUpdateBodies :
           update_topic(u, id, data)
    \/ \E u \in users, data \in TreeCreateBodies :
           create_topic(u, data) /\ Capped(MaxTopicId, MaxCardId)
    \/ \E u \in users, id \in TopicIds : delete_topic(u, id)
    \/ \E u \in users, arg \in {NULL} \cup TopicIds : get_cards(u, arg)
    \/ \E u \in users, data \in TreeAddBodies :
           add_card(u, data) /\ Capped(MaxTopicId, MaxCardId)
    \/ \E u \in users, forced \in TopicIds :
           import_cards(u, <<PlainCard>>, forced) /\ Capped(MaxTopicId, MaxCardId)

Spec == Init /\ [][Next]_vars

\* Renaming, reordering and reparenting topics: every field of update_topic
\* and reorder_topics, present or absent.
\* The parent_id of an update of topic id: null, or id as a number or as a
\* numeral in a string; reorder_topics gives the other parents.
UpdateBodies(id) ==
    {Merge(Merge(n, o), p) : n \in Opt("name", {"French"}),
                             o \in Opt("order", {1}),
                             p \in Opt("parent_id", {JNull, JInt(id), JStr(id)})}
ReorderItems ==
    {Merge([id |-> JInt(i), order |-> 1], p) :
        i \in TopicIds, p \in Opt("parent_id", IdVals)}
        \cup {[id |-> JInt(i), order |-> 1, parent_id |-> JStr(i)] : i \in TopicIds}
ReorderBodies == UNION {[1..n -> ReorderItems] : n \in 0..MaxItems}

NextUpdate ==
    \/ \E u \in UserIds : register(u) /\ Capped(MaxTopicId, 0)
    \/ \E u \in users, data \in Opt("name", {"Spanish"}) :
           create_topic(u, data) /\ Capped(MaxTopicId, 0)
    \/ \E u \in users, id \in TopicIds : \E data \in UpdateBodies(id) :
           update_topic(u, id, data)
    \/ \E u \in users, data \in ReorderBodies : reorder_topics(u, data)

SpecUpdate == Init /\ [][NextUpdate]_vars

\* Importing documents: one item with every choice of its four text fields,
\* and short documents of items that give a category or a topic name.
ImportTopicIds == 1..(MaxTopicId + 1)
ImportCardIds == 1..(MaxCardId + 1)
ImportCapped == Capped(MaxTopicId + 1, MaxCardId + 1)
ExportCapped == Capped(MaxTopicId + 1, 2 * (MaxCardId + 1))

Items ==
    {Merge(Merge(p, c), Merge(f, b)) :
        p \in Opt("prompt", {"P", ""}), c \in Opt("completion", {"C"}),
        f \in Opt("front", {"Q"}), b \in Opt("back", {"A"})}
PairItems == {[front |-> "Q", back |-> "A", category |-> "Bio"],
              [prompt |-> "P", completion |-> "C", topic |-> "Spanish"]}
ImportDocs ==
    {<<i>> : i \in Items} \cup UNION {[1..n -> PairItems] : n \in 1..MaxDocItems}
ImportUpdateBodies ==
    {Merge(c, t) : c \in Opt("category", {"Bio"}),
                   t \in Opt("topic_id", {JNull} \cup {JInt(n) : n \in ImportTopicIds})}

NextImport ==
    \/ \E u \in UserIds : register(u) /\ ImportCapped
    \/ \E u \in users, doc \in ImportDocs :
           import_cards(u, doc, NULL) /\ ImportCapped
    \/ \E u \in users, id \in ImportCardIds, data \in ImportUpdateBodies :
           update_card(u, id, data)
    \/ \E u \in users, id \in ImportCardIds : delete_card(u, id)

SpecImport == Init /\ [][NextImport]_vars

\* Exporting and importing again: user 1 files cards, with and without a
\* front text and a category, under topics with and without a name; either
\* user exports, and a user uploads the document just downloaded.
ExportAddBodies ==
    {Merge(Merge(Merge(f, [back |-> "A"]), g), t) :
        f \in Opt("front", {"Q", ""}), g \in Opt("category", {"Bio"}),
        t \in Opt("topic_id", {JInt(n) : n \in ImportTopicIds})}

NextExport ==
    \/ \E u \in UserIds : register(u) /\ ImportCapped
    \/ \E name \in {"Spanish", ""} : create_topic(1, [name |-> name]) /\ ImportCapped
    \/ \E data \in ExportAddBodies : add_card(1, data) /\ ImportCapped
    \/ \E u \in users : export_cards(u)
    \/ \E u \in users :
           /\ last.op = "export_cards"
           /\ import_cards(u, last.doc, NULL)
           /\ ExportCapped

SpecExport == Init /\ [][NextExport]_vars

(* ------------------------------- claims -------------------------------- *)

\* The topics reachable from those of S by child links (rows whose parent_id
\* is in the set), S included.
RECURSIVE Closure(_, _)
Closure(tps, S) ==
    LET more == S \cup {i \in DOMAIN tps : tps[i].parent_id \in S}
    IN  IF more = S THEN S ELSE Closure(tps, more)

\* Topic or card id `id` of table tbl is a row of a user other than u.
Foreign(tbl, id, u) == id \in DOMAIN tbl /\ tbl[id].user_id # u

Untouched == topics' = topics /\ cards' = cards
Refused == last'.status \in {403, 404} /\ Untouched

\* C1: a request by user u that names a topic or card of another user (as
\* its path id, as topic_id of add/update card, as the forced topic_id of an
\* import, as parent_id of create/update topic, as an entry id or parent_id
\* of reorder) is answered 403 or 404 and changes no topic and no card row.
C1_CrossUserIsolation ==
    [][\A u \in users :
        /\ \A id \in TopicIds, p \in IdVals :
             /\ Foreign(topics, id, u) /\ delete_topic(u, id) => Refused
             /\ Foreign(topics, id, u) /\ update_topic(u, id, [parent_id |-> p])
                    => Refused
             /\ Foreign(topics, p.v, u) /\ update_topic(u, id, [parent_id |-> p])
                    => Refused
             /\ Foreign(topics, p.v, u)
                    /\ reorder_topics(u, <<[id |-> JInt(id), order |-> 1,
                                            parent_id |-> p]>>)
                    => Refused
             /\ Foreign(topics, id, u)
                    /\ reorder_topics(u, <<[id |-> JInt(id), order |-> 1]>>)
                    => Refused
        /\ \A p \in IdVals :
             /\ Foreign(topics, p.v, u)
                    /\ create_topic(u, [name |-> "Spanish", parent_id |-> p])
                    => Refused
             /\ Foreign(topics, p.v, u)
                    /\ add_card(u, Merge(PlainCard, [topic_id |-> p]))
                    => Refused
             /\ Foreign(topics, p.v, u) /\ import_cards(u, <<PlainCard>>, p.v)
                    => Refused
             /\ \A c \in CardIds :
                    Foreign(topics, p.v, u) /\ update_card(u, c, [topic_id |-> p])
                    => Refused
        /\ \A c \in CardIds :
             /\ Foreign(cards, c, u) /\ delete_card(u, c) => Refused
             /\ Foreign(cards, c, u) /\ update_card(u, c, [front |-> "Q2"])
                    => Refused
      ]_vars

\* C2: when delete_topic(T) by T's owner completes (200), the topics left are
\* exactly those outside T's subtree by parent_id links, the cards left are
\* exactly those not filed under a topic of the subtree, and every row left
\* is unchanged.
C2_DeleteCascade ==
    [][(last'.op = "delete_topic" /\ last'.status = 200) =>
        \A u \in users, T \in TopicIds :
            delete_topic(u, T) =>
                LET sub == Closure(topics, {T})
                IN  /\ topics[T].user_id = u
                    /\ DOMAIN topics' = DOMAIN topics \ sub
                    /\ \A i \in DOMAIN topics' : topics'[i] = topics[i]
                    /\ DOMAIN cards' =
                           {c \in DOMAIN cards : cards[c].topic_id \notin sub}
                    /\ \A c \in DOMAIN cards' : cards'[c] = cards[c]
      ]_vars

\* C2's case: a delete that removed a topic and a descendant of it, leaving
\* a topic and a card outside the subtree.
C2_Witness ==
    /\ last.op = "delete_topic" /\ last.status = 200
    /\ Cardinality(last.ids) >= 2
    /\ DOMAIN topics # {} /\ DOMAIN cards # {}

\* The cards get_cards is to list for caller u: with topic_id = arg, u's
\* cards filed under arg or a descendant of arg among u's topics; with no
\* topic_id, u's cards with no topic, and those in the subtree of u's
\* default topic when there is one.
OwnTopics(u) == [i \in {j \in DOMAIN topics : topics[j].user_id = u} |-> topics[i]]
ExpectedCards(u, arg) ==
    LET own == {c \in DOMAIN cards : cards[c].user_id = u}
        root == IF arg # NULL THEN arg ELSE DefaultTopic(topics, u)
        scope == IF root = NULL THEN {} ELSE Closure(OwnTopics(u), {root})
    IN  {c \in own : \/ cards[c].topic_id \in scope
                     \/ arg = NULL /\ cards[c].topic_id = NULL}

\* C3: in every reachable state get_cards returns exactly ExpectedCards.
C3_CardListing ==
    [][last'.op = "get_cards" =>
        \A u \in users, arg \in {NULL} \cup TopicIds :
            get_cards(u, arg) =>
                last'.status = 200 /\ last'.ids = ExpectedCards(u, arg)
      ]_vars

\* C4: get_topic_scope terminates on every reachable topic graph, so every
\* get_cards request gets a response.
C4_ScopeTerminates == last.op = "get_cards" => last.status # NoResponse

\* C5: every card with a topic_id refers to an existing topic of the card's
\* own user.
C5_CardTopicOwnership ==
    \A c \in DOMAIN cards :
        cards[c].topic_id # NULL =>
            /\ cards[c].topic_id \in DOMAIN topics
            /\ topics[cards[c].topic_id].user_id = cards[c].user_id

\* C6: every topic with a parent_id has an existing parent topic of the
\* topic's own user.
C6_TopicParentOwnership ==
    \A i \in DOMAIN topics :
        topics[i].parent_id # NULL =>
            /\ topics[i].parent_id \in DOMAIN topics
            /\ topics[topics[i].parent_id].user_id = topics[i].user_id

\* Request bodies whose parent_id is the number `id`, with and without the
\* name and order fields.
SelfParentBodies(id) ==
    {[parent_id |-> JInt(id)],
     [name |-> "French", parent_id |-> JInt(id)],
     [order |-> 1, parent_id |-> JInt(id)],
     [name |-> "French", order |-> 1, parent_id |-> JInt(id)]}

\* C7: update_topic of the caller's own topic T with parent_id = T's id is
\* answered 400 and leaves T's row, name and order included, as it was.
C7_SelfParentRejected ==
    [][last'.op = "update_topic" =>
        \A id \in DOMAIN topics :
            \/ /\ last'.status = 400
               /\ id \in DOMAIN topics' /\ topics'[id] = topics[id]
            \/ \A data \in SelfParentBodies(id) :
                   ~update_topic(topics[id].user_id, id, data)
      ]_vars

\* C7's case: a self-parent update was refused on a topic that an earlier
\* request had renamed and reordered.
C7_Witness ==
    /\ last.op = "update_topic" /\ last.status = 400
    /\ \E i \in DOMAIN topics : topics[i].name = "French" /\ topics[i].order = 1
    /\ \E i \in DOMAIN topics : topics[i].name # "French" /\ topics[i].order # 1

\* C10: no topic is its own parent.
C10_NoSelfLoop == \A i \in DOMAIN topics : topics[i].parent_id # i

\* The {category, front, back} triple of a card or of a document's item.
Triple(r) == <<r.category, r.front, r.back>>

\* Card c is filed under a topic of user w named `name`.
FiledUnder(cds, tps, c, w, name) ==
    /\ cds[c].topic_id \in DOMAIN tps
    /\ tps[cds[c].topic_id].user_id = w
    /\ tps[cds[c].topic_id].name = name

\* After user w uploaded doc: w's cards carry exactly the triples of doc, and
\* each item of `named` has a card with its triple under a topic of w that
\* has the item's topic name.
RoundTrip(w, doc, named) ==
    LET mine == {c \in DOMAIN cards' : cards'[c].user_id = w}
    IN  /\ {Triple(cards'[c]) : c \in mine} = {Triple(doc[i]) : i \in DOMAIN doc}
        /\ \A i \in named :
               \E c \in mine : /\ Triple(cards'[c]) = Triple(doc[i])
                               /\ FiledUnder(cards', topics', c, w, doc[i]["topic"])

NoCards(w) == \A c \in DOMAIN cards : cards[c].user_id # w

\* C8: importing an exported document into an account with no
\* cards gives the account the exported triples, each card whose item has a
\* topic name under a topic of the account with that name.
C8_RoundTrip ==
    [][(last.op = "export_cards" /\ last'.op = "import_cards") =>
        \A w \in users :
            (NoCards(w) /\ import_cards(w, last.doc, NULL)) =>
                RoundTrip(w, last.doc,
                          {i \in DOMAIN last.doc : Has(last.doc[i], "topic")})
      ]_vars

\* The round trip of C8 on the documents import_cards reads in full: those
\* whose items all have a non-empty front and back, with the placement of the
\* items whose topic name is not empty.
C8_RoundTripNonEmpty ==
    [][(last.op = "export_cards" /\ last'.op = "import_cards") =>
        \A w \in users :
            (/\ NoCards(w)
             /\ \A i \in DOMAIN last.doc :
                    last.doc[i].front # "" /\ last.doc[i].back # ""
             /\ import_cards(w, last.doc, NULL)) =>
                RoundTrip(w, last.doc,
                          {i \in DOMAIN last.doc :
                              Has(last.doc[i], "topic") /\ last.doc[i]["topic"] # ""})
      ]_vars

\* The restricted round trip's case: an exported document of two different cards, one with a topic
\* name, has been imported by the user who had no cards.
C8_Witness ==
    /\ last.op = "import_cards" /\ Len(last.doc) = 2
    /\ Triple(last.doc[1]) # Triple(last.doc[2])
    /\ \E i \in DOMAIN last.doc : Has(last.doc[i], "topic")
    /\ \A i \in DOMAIN last.doc : last.doc[i].front # "" /\ last.doc[i].back # ""
    /\ \E c \in DOMAIN cards :
           cards[c].user_id = 2 /\ FiledUnder(cards, topics, c, 2, "Spanish")

\* The text pair the claim gives an item: front and back first.
ClaimedPair(item) ==
    IF Has(item, "front") /\ Has(item, "back")
    THEN <<item["front"], item["back"]>>
    ELSE IF Has(item, "prompt") /\ Has(item, "completion")
    THEN <<item["prompt"], item["completion"]>>
    ELSE <<"", "">>

\* The text pair of the amended claim: prompt and completion first.
AmendedPair(item) ==
    IF Has(item, "prompt") /\ Has(item, "completion")
    THEN <<item["prompt"], item["completion"]>>
    ELSE IF Has(item, "front") /\ Has(item, "back")
    THEN <<item["front"], item["back"]>>
    ELSE <<"", "">>

Created == DOMAIN cards' \ DOMAIN cards

\* C9 as stated: the card made of an import item has the item's front and
\* back when both are present, and its prompt and completion only otherwise.
C9_FrontBackPreferred ==
    [][(last'.op = "import_cards" /\ Len(last'.doc) = 1) =>
        \A c \in Created :
            <<cards'[c].front, cards'[c].back>> = ClaimedPair(last'.doc[1])
      ]_vars

\* C9 amended: the card has the item's prompt and completion when both are
\* present, and its front and back only otherwise; the item makes a card
\* exactly when both texts of that pair are non-empty.
C9_PromptCompletionPreferred ==
    [][(last'.op = "import_cards" /\ Len(last'.doc) = 1) =>
        LET pair == AmendedPair(last'.doc[1])
        IN  /\ \A c \in Created : <<cards'[c].front, cards'[c].back>> = pair
            /\ Cardinality(Created) = IF pair[1] # "" /\ pair[2] # "" THEN 1 ELSE 0
      ]_vars

\* C9's case: an item with all four text fields has been imported.
C9_Witness ==
    /\ last.op = "import_cards" /\ Len(last.doc) = 1
    /\ DOMAIN last.doc[1] = {"prompt", "completion", "front", "back"}
    /\ \E c \in DOMAIN cards : cards[c].front = "P" /\ cards[c].back = "C"

====
